---- MODULE Spec2Model ----
(***************************************************************************)
(* A model of the commit parser of another-work-report-generator           *)
(* (src/src/commitsParser.js): _parse, _calculation, standardCalculation   *)
(* and equalCalculation.                                                   *)
(*                                                                         *)
(* JavaScript numbers are modelled as exact rationals [n, d] in lowest     *)
(* terms with d > 0, plus NaN; the rounding error of double arithmetic is  *)
(* not modelled.                                                           *)
(* A commit block is modelled by the fields the code reads from it: the    *)
(* epoch seconds of the description line and the numbers the two regular   *)
(* expressions capture from the stats line (Absent when there is no        *)
(* match).  fullhash, hash and text are copied through by the code and     *)
(* are left out.                                                           *)
(***************************************************************************)
EXTENDS Integers, Sequences, FiniteSets, TLC

VARIABLES pc, op, rawCommits, settings, commits, commitsLengthMap, console

vars == <<pc, op, rawCommits, settings, commits, commitsLengthMap, console>>

(***************************************************************************)
(* Bounds of the model.                                                    *)
(***************************************************************************)
MaxCommits == 3

(***************************************************************************)
(* JavaScript numbers.                                                     *)
(***************************************************************************)
NaN == [n |-> 0, d |-> 0]

IsNaN(q) == q.d = 0

Abs(x) == IF x < 0 THEN -x ELSE x

RECURSIVE GCD(_, _)
GCD(a, b) == IF b = 0 THEN a ELSE GCD(b, a % b)

Rat(n, d) ==
    LET g == GCD(Abs(n), Abs(d))
        s == IF d < 0 THEN -1 ELSE 1
    IN  [n |-> s * (n \div g), d |-> s * (d \div g)]

Num(i) == [n |-> i, d |-> 1]

\* a * b, of numbers in lowest terms: reduced crosswise, the product is in
\* lowest terms again.
RMul(a, b) ==
    IF IsNaN(a) \/ IsNaN(b) THEN NaN
    ELSE LET g1 == GCD(Abs(a.n), b.d)
             g2 == GCD(Abs(b.n), a.d)
         IN  [n |-> (a.n \div g1) * (b.n \div g2), d |-> (a.d \div g2) * (b.d \div g1)]

\* a / b; 0 / 0 is NaN.  A non-zero number is never divided by zero here:
\* a commit's lines never exceed its day's lines, and the settings are positive.
RDiv(a, b) ==
    IF IsNaN(a) \/ IsNaN(b) \/ b.n = 0 THEN NaN
    ELSE RMul(a, IF b.n < 0 THEN [n |-> -b.d, d |-> -b.n] ELSE [n |-> b.d, d |-> b.n])

RAdd(a, b) ==
    IF IsNaN(a) \/ IsNaN(b) THEN NaN
    ELSE LET g == GCD(a.d, b.d)
         IN  Rat(a.n * (b.d \div g) + b.n * (a.d \div g), (a.d \div g) * b.d)

RSub(a, b) == RAdd(a, RMul(Num(-1), b))

\* a < b; every comparison with NaN is false.
RLess(a, b) ==
    IF IsNaN(a) \/ IsNaN(b) THEN FALSE
    ELSE a.n * b.d < b.n * a.d

\* a <= b; every comparison with NaN is false.
RLeq(a, b) ==
    IF IsNaN(a) \/ IsNaN(b) THEN FALSE
    ELSE a.n * b.d <= b.n * a.d

\* NaN is falsy, and so is 0.
Truthy(q) == ~IsNaN(q) /\ q.n # 0

RECURSIVE Pow10(_)
Pow10(p) == IF p = 0 THEN 1 ELSE 10 * Pow10(p - 1)

\* The first significant decimal digit of n / d, for 0 < n < d.
RECURSIVE LeadingDigit(_, _)
LeadingDigit(n, d) ==
    IF n * 10 >= d THEN (n * 10) \div d ELSE LeadingDigit(n * 10, d)

ExponentThreshold == 1000000

\* String(q) is in exponent notation ("3.2e-7") when 0 < |q| < 1e-6.
InExponentNotation(q) == q.n # 0 /\ Abs(q.n) <= (q.d - 1) \div ExponentThreshold

\* parseInt(q, 10) of a number: the number is converted to a string, and the
\* digits before the first character that is no digit are parsed.
ParseInt(q) ==
    IF IsNaN(q) THEN NaN
    ELSE IF InExponentNotation(q)
    THEN Num((IF q.n < 0 THEN -1 ELSE 1) * LeadingDigit(Abs(q.n), q.d))
    ELSE Num((IF q.n < 0 THEN -1 ELSE 1) * (Abs(q.n) \div q.d))

\* <<floor(n / d * 10^p), the remainder>>, one decimal digit at a time.
RECURSIVE Shifted(_, _, _)
Shifted(n, d, p) ==
    IF p = 0 THEN <<n \div d, n % d>>
    ELSE LET prev == Shifted(n, d, p - 1)
         IN  <<prev[1] * 10 + (prev[2] * 10) \div d, (prev[2] * 10) % d>>

\* _.round(q, p): the decimal point is shifted by p digits, Math.round rounds
\* half up, the point is shifted back.  NaN stays NaN.
Round(q, p) ==
    IF IsNaN(q) THEN NaN
    ELSE LET s == Shifted(q.n, q.d, p)
             m == IF 2 * s[2] >= q.d THEN s[1] + 1 ELSE s[1]
         IN  Rat(m, Pow10(p))

(***************************************************************************)
(* Inputs: settings and raw commits.                                       *)
(***************************************************************************)
SecondsPerDay == 86400

MsPerSecond == 1000

Absent == -1

\* Epoch seconds: the last second of day 0 and the first two of day 1.
Datetimes == {SecondsPerDay - 1, SecondsPerDay, SecondsPerDay + 1}

\* <<insertions, deletions>> as captured from the stats line of an ordinary commit.
StatsLines == {<<2, Absent>>, <<40, 30>>}

\* A commit without line changes and a commit of 64 million lines.
RareStatsLines == {<<Absent, Absent>>, <<64000000, Absent>>}

CommitBlocks ==
    {[datetime |-> t, insertions |-> st[1], deletions |-> st[2]] :
        t \in Datetimes, st \in StatsLines}
    \cup
    {[datetime |-> SecondsPerDay, insertions |-> st[1], deletions |-> st[2]] :
        st \in RareStatsLines}

GitFolders == << <<"work", "alpha", ".git">>, <<"work", "beta", ".git">> >>

\* Two repositories; the commit blocks are dealt to them at split point k.
Dealt(blocks, k) ==
    << [gitFolder |-> GitFolders[1], commits |-> SubSeq(blocks, 1, k)],
       [gitFolder |-> GitFolders[2], commits |-> SubSeq(blocks, k + 1, Len(blocks))] >>

WideWindow ==
    [startTime |-> 0, endTime |-> 2 * SecondsPerDay * MsPerSecond]

NarrowWindow ==
    [startTime |-> (SecondsPerDay - 1) * MsPerSecond,
     endTime |-> (SecondsPerDay + 1) * MsPerSecond]

WithWindow(s, w) ==
    [startTime |-> w.startTime, endTime |-> w.endTime,
     maxHoursPerDay |-> s.maxHoursPerDay, graduation |-> s.graduation,
     minCommitTime |-> s.minCommitTime,
     equalRoundPrecision |-> s.equalRoundPrecision]

\* Eight hours a day in quarter hours, times rounded to two digits.
QuarterHours ==
    WithWindow([maxHoursPerDay |-> Num(8), graduation |-> Rat(1, 4),
                minCommitTime |-> Rat(1, 4), equalRoundPrecision |-> 2], WideWindow)

\* The same, times rounded to one digit, over the narrow window.
QuarterHoursOneDigit ==
    WithWindow([maxHoursPerDay |-> Num(8), graduation |-> Rat(1, 4),
                minCommitTime |-> Rat(1, 4), equalRoundPrecision |-> 1], NarrowWindow)

\* One hour a day in half hours.
HalfHours ==
    WithWindow([maxHoursPerDay |-> Num(1), graduation |-> Rat(1, 2),
                minCommitTime |-> Rat(1, 2), equalRoundPrecision |-> 2], WideWindow)

SettingsSet == {QuarterHours, QuarterHoursOneDigit, HalfHours}

(***************************************************************************)
(* _parse                                                                  *)
(***************************************************************************)
Reverse(s) == [i \in 1..Len(s) |-> s[Len(s) + 1 - i]]

\* gitFolder.split(path.sep).reverse()[1]
Project(gitFolder) == Reverse(gitFolder)[2]

\* The captured number, 0 when the pattern does not match.
Captured(x) == IF x = Absent THEN 0 ELSE x

\* date.toISOString().split('T')[0]: the UTC calendar day, as days since epoch.
ShortDate(date) == date \div (SecondsPerDay * MsPerSecond)

ParseBlock(gitReport, block) ==
    LET date == block.datetime * MsPerSecond
    IN  [date |-> date,
         shortDate |-> ShortDate(date),
         project |-> Project(gitReport.gitFolder),
         lines |-> Captured(block.insertions) + Captured(block.deletions)]

RECURSIVE ConcatReports(_, _)
ConcatReports(raw, i) ==
    IF i = 0 THEN <<>>
    ELSE ConcatReports(raw, i - 1) \o
         [j \in 1..Len(raw[i].commits) |-> ParseBlock(raw[i], raw[i].commits[j])]

InWindowInclusive(date, s) == s.startTime <= date /\ date <= s.endTime

InWindow(date, s) == s.startTime < date /\ date < s.endTime

RECURSIVE FilterWindow(_, _)
FilterWindow(cs, s) ==
    IF cs = <<>> THEN <<>>
    ELSE IF InWindow(Head(cs).date, s)
         THEN <<Head(cs)>> \o FilterWindow(Tail(cs), s)
         ELSE FilterWindow(Tail(cs), s)

\* Inserts c after the last commit that is not later than c (a stable sort).
RECURSIVE InsertByDate(_, _)
InsertByDate(sorted, c) ==
    IF sorted = <<>> THEN <<c>>
    ELSE IF c.date - sorted[Len(sorted)].date >= 0
         THEN Append(sorted, c)
         ELSE Append(InsertByDate(SubSeq(sorted, 1, Len(sorted) - 1), c),
                     sorted[Len(sorted)])

RECURSIVE SortByDateFrom(_, _)
SortByDateFrom(cs, i) ==
    IF i = 0 THEN <<>> ELSE InsertByDate(SortByDateFrom(cs, i - 1), cs[i])

SortSkipped(cs) == cs

SortByDate(cs) == SortByDateFrom(cs, Len(cs))

ParseCommits(raw, s) ==
    SortByDate(FilterWindow(ConcatReports(raw, Len(raw)), s))

(***************************************************************************)
(* _calculation                                                            *)
(***************************************************************************)
RECURSIVE SumLines(_)
SumLines(cs) == IF cs = <<>> THEN 0 ELSE Head(cs).lines + SumLines(Tail(cs))

DayCommits(cs, shortDate) == SelectSeq(cs, LAMBDA c : c.shortDate = shortDate)

\* filteredCommit.lines / linesInDay; 0 / 0 is NaN.
Ratio(cs, filteredCommit) ==
    RDiv(Num(filteredCommit.lines),
         Num(SumLines(DayCommits(cs, filteredCommit.shortDate))))

WithTime(c, time) ==
    [date |-> c.date, shortDate |-> c.shortDate, project |-> c.project,
     lines |-> c.lines, time |-> time, isMinCommitTime |-> FALSE]

FirstCommitOnly(cs, shortDate) == 1

DayLength(cs, shortDate) == Len(DayCommits(cs, shortDate))

\* if (!commitsLengthMap[shortDate]) commitsLengthMap[shortDate] = dayCommits.length
LengthMapWith(map, cs, key) ==
    IF key \notin DOMAIN map \/ map[key] = 0
    THEN [k \in DOMAIN map \cup {key} |->
             IF k = key THEN DayLength(cs, key) ELSE map[k]]
    ELSE map

\* The forEach loop from commit i on, as far as commitsLengthMap goes.
RECURSIVE LengthMapFrom(_, _, _)
LengthMapFrom(map, cs, i) ==
    IF i > Len(cs) THEN map
    ELSE LengthMapFrom(LengthMapWith(map, cs, cs[i].shortDate), cs, i + 1)

NeverExits(cs) == FALSE

\* commits.length is 0: "No commits found." and process.exit(0).
Exits(cs) == Len(cs) = 0

BlankLine == [msg |-> "", count |-> 0]

ConsoleOutput(cs) ==
    IF Exits(cs)
    THEN <<BlankLine, [msg |-> "No commits found.", count |-> 0]>>
    ELSE <<BlankLine, [msg |-> "Found commit(s).", count |-> Len(cs)], BlankLine>>

(***************************************************************************)
(* The time calculation methods of standardCalculation and                 *)
(* equalCalculation.                                                       *)
(***************************************************************************)
\* parseInt((ratio * maxHoursPerDay) / graduation, 10) * graduation
StandardFloored(s, ratio) ==
    RMul(ParseInt(RDiv(RMul(ratio, s.maxHoursPerDay), s.graduation)), s.graduation)

\* ... || minCommitTime
StandardTime(s, ratio) ==
    LET floored == StandardFloored(s, ratio)
    IN  IF Truthy(floored) THEN floored ELSE s.minCommitTime

\* ratio * maxHoursPerDay
EqualTime(s, ratio) == RMul(ratio, s.maxHoursPerDay)

\* The method a calculation hands to _calculation, called with a ratio.
TimeCalculationMethod(method, s, ratio) ==
    IF method = "standard" THEN StandardTime(s, ratio) ELSE EqualTime(s, ratio)

\* The result of _calculation, with the position it leaves the process in.
Calculation(raw, s, method) ==
    LET parsed == ParseCommits(raw, s)
        timed == [i \in 1..Len(parsed) |->
                     WithTime(parsed[i],
                              TimeCalculationMethod(method, s, Ratio(parsed, parsed[i])))]
    IN  [exited |-> Exits(parsed),
         console |-> ConsoleOutput(parsed),
         commits |-> timed,
         commitsLengthMap |-> LengthMapFrom(<<>>, parsed, 1)]

(***************************************************************************)
(* equalCalculation                                                        *)
(***************************************************************************)
ClampKeepsTime(s, c) == [c EXCEPT !.isMinCommitTime = RLess(c.time, s.minCommitTime)]

\* The first pass over a day: commits below minCommitTime are set to it and flagged.
Clamp(s, c) ==
    IF RLess(c.time, s.minCommitTime)
    THEN [c EXCEPT !.time = s.minCommitTime, !.isMinCommitTime = TRUE]
    ELSE c

MinCommitTimeCommits(day) == Len(SelectSeq(day, LAMBDA c : c.isMinCommitTime))

NewMaxHoursPerDay(s, day) ==
    RSub(s.maxHoursPerDay, RMul(Num(MinCommitTimeCommits(day)), s.minCommitTime))

RescaleAll(s, day, c) ==
    IF MinCommitTimeCommits(day) # 0
    THEN [c EXCEPT !.time = RMul(RDiv(c.time, s.maxHoursPerDay), NewMaxHoursPerDay(s, day))]
    ELSE c

\* The second pass, over the clamped day: the commits that are not flagged share
\* the hours the flagged ones leave.
Rescale(s, day, c) ==
    IF MinCommitTimeCommits(day) # 0 /\ ~c.isMinCommitTime
    THEN [c EXCEPT !.time = RMul(RDiv(c.time, s.maxHoursPerDay), NewMaxHoursPerDay(s, day))]
    ELSE c

\* The third pass: two roundings.
RoundTime(s, time) ==
    Round(Round(time, s.equalRoundPrecision + 1), s.equalRoundPrecision)

\* The three passes over the commits of one shortDate group.
EqualDay(s, day) ==
    LET clamped == [i \in 1..Len(day) |-> Clamp(s, day[i])]
    IN  [i \in 1..Len(day) |->
            LET rescaled == Rescale(s, clamped, clamped[i])
            IN  [rescaled EXCEPT !.time = RoundTime(s, rescaled.time)]]

\* The position of commit i of cs within its shortDate group.
IndexInDay(cs, i) ==
    Cardinality({j \in 1..i : cs[j].shortDate = cs[i].shortDate})

\* The commits of the calculation after every group was processed in place.
EqualCommits(s, cs) ==
    LET shortDateGrouped ==
            [key \in {cs[i].shortDate : i \in 1..Len(cs)} |->
                EqualDay(s, DayCommits(cs, key))]
    IN  [i \in 1..Len(cs) |-> shortDateGrouped[cs[i].shortDate][IndexInDay(cs, i)]]

(***************************************************************************)
(* The state machine: a run holds its arguments and calls the parser once. *)
(***************************************************************************)
Init ==
    /\ pc = "idle"
    /\ op = "none"
    /\ \E n \in 0..MaxCommits :
          \E blocks \in [1..n -> CommitBlocks], k \in 0..n :
             rawCommits = Dealt(blocks, k)
    /\ settings \in SettingsSet
    /\ commits = <<>>
    /\ commitsLengthMap = <<>>
    /\ console = <<>>

Parse ==
    /\ pc = "idle"
    /\ pc' = "returned"
    /\ op' = "parse"
    /\ commits' = ParseCommits(rawCommits, settings)
    /\ UNCHANGED <<rawCommits, settings, commitsLengthMap, console>>

Finish(calculation, finalCommits) ==
    /\ console' = calculation.console
    /\ IF calculation.exited
       THEN /\ pc' = "exited"
            /\ UNCHANGED <<commits, commitsLengthMap>>
       ELSE /\ pc' = "returned"
            /\ commits' = finalCommits
            /\ commitsLengthMap' = calculation.commitsLengthMap

StandardCalculation ==
    /\ pc = "idle"
    /\ op' = "standard"
    /\ LET calculation == Calculation(rawCommits, settings, "standard")
       IN  Finish(calculation, calculation.commits)
    /\ UNCHANGED <<rawCommits, settings>>

EqualCalculation ==
    /\ pc = "idle"
    /\ op' = "equal"
    /\ LET calculation == Calculation(rawCommits, settings, "equal")
       IN  Finish(calculation, EqualCommits(settings, calculation.commits))
    /\ UNCHANGED <<rawCommits, settings>>

Next ==
    \/ Parse
    \/ StandardCalculation
    \/ EqualCalculation

Spec == Init /\ [][Next]_vars

(***************************************************************************)
(* Properties.                                                             *)
(***************************************************************************)
Returned(o) == pc = "returned" /\ op = o

Calculated == Returned("standard") \/ Returned("equal")

Idx == 1..Len(commits)

Days == {commits[i].shortDate : i \in Idx}

MinCommitTime == settings.minCommitTime

MaxHoursPerDay == settings.maxHoursPerDay

RAbs(q) == [n |-> Abs(q.n), d |-> q.d]

RECURSIVE SumTime(_)
SumTime(cs) == IF cs = <<>> THEN Num(0) ELSE RAdd(Head(cs).time, SumTime(Tail(cs)))

\* The mathematical floor of a rational.
Floor(q) == Num(q.n \div q.d)

\* A commit's share of its day's lines, 0 on a day without lines.
Share(i) ==
    LET linesInDay == SumLines(DayCommits(commits, commits[i].shortDate))
    IN  IF linesInDay = 0 THEN Num(0) ELSE Rat(commits[i].lines, linesInDay)

\* The proportional allocation the equal strategy starts from, as the code computes it.
Proportional(i) == EqualTime(settings, Ratio(commits, commits[i]))

FlaggedInDay(shortDate) ==
    \E i \in Idx : commits[i].shortDate = shortDate /\ commits[i].isMinCommitTime

\* The raw commits of the run, parsed, in the order of the input.
InputCommits == ConcatReports(rawCommits, Len(rawCommits))

StrictlyInside(date) == settings.startTime < date /\ date < settings.endTime

Parsed(c) ==
    [date |-> c.date, shortDate |-> c.shortDate, project |-> c.project, lines |-> c.lines]

Occurrences(cs, c) == Cardinality({i \in 1..Len(cs) : Parsed(cs[i]) = c})

\* C1: after equalCalculation, the times of every day of the result add up to
\* maxHoursPerDay, within one unit of the last rounded digit per commit.  It is
\* stated for the days with changed lines: the times of a day without any are
\* NaN (C4) and add up to nothing.
C1_DaySumIsMaxHoursPerDay ==
    Returned("equal") =>
        \A day \in Days :
            LET cs == DayCommits(commits, day)
            IN  SumLines(cs) > 0 =>
                    RLeq(RAbs(RSub(SumTime(cs), MaxHoursPerDay)),
                         Rat(Len(cs), Pow10(settings.equalRoundPrecision)))

\* C2 as claimed: after equalCalculation, a commit whose proportional
\* allocation is strictly below minCommitTime has exactly minCommitTime.
C2_ClampedTimeIsExactlyMin ==
    Returned("equal") =>
        \A i \in Idx :
            RLess(Proportional(i), MinCommitTime) => commits[i].time = MinCommitTime

\* minCommitTime has at most equalRoundPrecision decimal digits.
MinHasPrecision ==
    (MinCommitTime.n * Pow10(settings.equalRoundPrecision)) % MinCommitTime.d = 0

\* C2 as amended: after equalCalculation, a commit whose proportional
\* allocation is strictly below minCommitTime is flagged and has minCommitTime
\* after the two roundings, which is minCommitTime itself when minCommitTime has
\* at most equalRoundPrecision decimal digits.
C2_ClampedTimeIsRoundedMin ==
    Returned("equal") =>
        \A i \in Idx :
            RLess(Proportional(i), MinCommitTime) =>
                /\ commits[i].isMinCommitTime
                /\ commits[i].time = RoundTime(settings, MinCommitTime)
                /\ MinHasPrecision => commits[i].time = MinCommitTime

\* A clamped commit shares its day with a commit that was rescaled.
C2_Witness ==
    /\ Returned("equal")
    /\ MinHasPrecision
    /\ \E i, j \in Idx :
          /\ commits[i].shortDate = commits[j].shortDate
          /\ RLess(Proportional(i), MinCommitTime)
          /\ commits[i].time = MinCommitTime
          /\ ~commits[j].isMinCommitTime
          /\ commits[j].time # Proportional(j)

\* C3 as claimed: after equalCalculation, no commit has a time below
\* minCommitTime, the commits that were not flagged and then rescaled included.
C3_NoTimeBelowMin ==
    Returned("equal") => \A i \in Idx : ~RLess(commits[i].time, MinCommitTime)

\* C3 as amended: after equalCalculation, no commit that was flagged in the
\* clamping pass, and no commit of a day without flagged commits, has a time
\* below minCommitTime as the two roundings round it.
C3_NoClampedOrUnscaledTimeBelowRoundedMin ==
    Returned("equal") =>
        \A i \in Idx :
            (commits[i].isMinCommitTime \/ ~FlaggedInDay(commits[i].shortDate)) =>
                ~RLess(commits[i].time, RoundTime(settings, MinCommitTime))

\* A day with a flagged commit and a day without one, both with numeric times.
C3_Witness ==
    /\ Returned("equal")
    /\ \E i, j \in Idx :
          /\ commits[i].isMinCommitTime
          /\ ~FlaggedInDay(commits[j].shortDate)
          /\ RLeq(RoundTime(settings, MinCommitTime), commits[i].time)
          /\ RLess(RoundTime(settings, MinCommitTime), commits[j].time)

\* C4: after either calculation, every commit's time is a number, and it is
\* at least 0.
C4_EveryTimeIsANumber ==
    Calculated =>
        \A i \in Idx : ~IsNaN(commits[i].time) /\ RLeq(Num(0), commits[i].time)

\* floor((ratio * maxHoursPerDay) / graduation) * graduation
Floored(i) ==
    RMul(Floor(RDiv(RMul(Share(i), MaxHoursPerDay), settings.graduation)),
         settings.graduation)

\* C5: after standardCalculation, every commit's time is
\* floor((ratio * maxHoursPerDay) / graduation) * graduation, or minCommitTime
\* when that is 0.
C5_StandardTimeIsFloored ==
    Returned("standard") =>
        \A i \in Idx :
            commits[i].time = IF Floored(i).n = 0 THEN MinCommitTime ELSE Floored(i)

\* The commits of a day that did not fall back to minCommitTime.
NotFallenBack(cs) ==
    SelectSeq(cs, LAMBDA c : Truthy(StandardFloored(settings, Ratio(commits, c))))

\* C10: after standardCalculation, the times of a day's commits that did not
\* fall back to minCommitTime add up to at most maxHoursPerDay.
C10_StandardDaySumAtMostMax ==
    Returned("standard") =>
        \A day \in Days :
            RLeq(SumTime(NotFallenBack(DayCommits(commits, day))), MaxHoursPerDay)

\* C6: the returned commits are exactly the input commits strictly inside the
\* window, each as often as the input has it.
C6_WindowIsExclusive ==
    pc = "returned" =>
        LET input == InputCommits
        IN  /\ \A i \in Idx : StrictlyInside(commits[i].date)
            /\ \A k \in 1..Len(input) :
                  Occurrences(commits, input[k]) =
                      IF StrictlyInside(input[k].date)
                      THEN Occurrences(input, input[k])
                      ELSE 0

\* The input has a commit at startTime, one at endTime and one between them.
C6_Witness ==
    /\ pc = "returned"
    /\ Len(commits) > 0
    /\ \E k \in 1..Len(InputCommits) : InputCommits[k].date = settings.startTime
    /\ \E k \in 1..Len(InputCommits) : InputCommits[k].date = settings.endTime

\* C7: the returned commits are in non-decreasing order of date.
C7_SortedByDate ==
    pc = "returned" =>
        \A i, j \in Idx : i < j => commits[i].date <= commits[j].date

\* Both repositories contribute, and the input is not in order of date.
C7_Witness ==
    /\ pc = "returned"
    /\ \E i, j \in Idx : commits[i].project # commits[j].project
    /\ \E k \in 1..Len(InputCommits) - 1 :
          /\ InputCommits[k].date > InputCommits[k + 1].date
          /\ StrictlyInside(InputCommits[k].date)
          /\ StrictlyInside(InputCommits[k + 1].date)

\* C8: commitsLengthMap has one key per shortDate of the returned commits, and
\* its value is the number of returned commits of that day.
C8_LengthMapCountsDays ==
    Calculated =>
        /\ DOMAIN commitsLengthMap = Days
        /\ \A day \in Days :
              commitsLengthMap[day] =
                  Cardinality({i \in Idx : commits[i].shortDate = day})

\* A day with three commits or more that arrive out of order of date.
C8_Witness ==
    /\ Calculated
    /\ \E day \in Days : commitsLengthMap[day] >= 3
    /\ \E k \in 1..Len(InputCommits) - 1 :
          InputCommits[k].date > InputCommits[k + 1].date

NothingInside ==
    LET input == InputCommits
    IN  \A k \in 1..Len(input) : ~StrictlyInside(input[k].date)

\* C9: a calculation over no commit inside the window prints "No commits found."
\* and exits without a result; any other prints the count and returns its commits.
C9_EmptyExitsElseReturns ==
    op \in {"standard", "equal"} =>
        /\ pc = "exited" <=> NothingInside
        /\ pc = "exited" =>
              /\ commits = <<>>
              /\ commitsLengthMap = <<>>
              /\ console[Len(console)].msg = "No commits found."
        /\ pc = "returned" =>
              /\ Len(commits) > 0
              /\ console[2] = [msg |-> "Found commit(s).", count |-> Len(commits)]

\* The input has commits, all outside the window, and the run has exited.
C9_Witness ==
    /\ pc = "exited"
    /\ Len(InputCommits) > 0

====
